---- MODULE Spec2Model ----
(***************************************************************************)
(* A model of download_snapshot.py: the ClientAuth token lifecycle with    *)
(* its credential file, ModulesEvents.get_snapshots_url, and the __main__  *)
(* flow.                                                                   *)
(*                                                                         *)
(* Time is counted in clock ticks, Res ticks to the second, so that        *)
(* time.time() (a float) can fall between two whole seconds while          *)
(* self.expiration (an int) cannot.                                        *)
(***************************************************************************)
EXTENDS Integers, Sequences, FiniteSets, TLC

VARIABLES
    now,          \* time.time(), in ticks
    auth,         \* the ClientAuth object: _access_token, refresh_token, expiration
    cred,         \* the module-level dict cred: its REFRESH_TOKEN
    CREDENTIALS,  \* content of the credential file: <<>> truncated, <<rt>> a full set
    env,          \* environment variable REFRESH_TOKEN: <<>> unset, <<rt>> set
    srv,          \* authorization server: the refresh token it accepts, tokens minted
    proc,         \* the python process: "up", "exited", "crashed", "load_failed"
    last,         \* what the last operation did (history, for the properties)
    events,       \* the events payload the server returns for a device type
    args,         \* the arguments of get_snapshots_url: since, _from, to
    snap,         \* how get_snapshots_url ended and what it returned
    homes,        \* the homesdata payload: resp['body']['homes']
    status,       \* the homestatus payload is non-empty
    all_events,   \* the getevents payload of ModulesEvents.__init__ is non-empty
    main          \* the __main__ script: pc, home_id, err, calls, todo

authVars == <<now, auth, cred, CREDENTIALS, env, srv, proc, last>>
snapVars == <<events, args, snap>>
mainVars == <<homes, status, all_events, main>>
vars == <<authVars, snapVars, mainVars>>

\* ---------------------------------------------------------------- bounds
Res == 2
MaxTime == 7
MaxExpireIn == 2
MaxRotations == 2
MaxMint == 3

\* self._access_token = None
None == 0

\* ---------------------------------------------------------------- helpers
\* int(x) of a non-negative float given in ticks: whole seconds, truncated
int(ticks) == ticks \div Res

\* getParameter(key, default): getenv(key, default.get(key, None))
getParameter(e, c) == IF e # <<>> THEN e[1] ELSE c

\* ClientAuth.__init__
ClientAuth(rt) == [access_token |-> None, refresh_token |-> rt, expiration |-> 0]

\* the test of line 95: self.expiration < time.time()
Expired_margin(expiration, t) == expiration * Res < t + Res
Expired(expiration, t) == expiration * Res < t

\* the test of line 108: self.refresh_token != resp['refresh_token']
Rotated(held, received) == held # received

\* what line 112 writes: json.dumps(cred) after cred["REFRESH_TOKEN"] was set
dumps_stale(c_old, c_new) == <<c_old>>
dumps(c_old, c_new) == <<c_new>>

Faults == {"none", "crash_after_post", "crash_after_open", "crash_after_write",
           "open_fails", "no_access_token"}

\* The authorization endpoint's answer to grant_type=refresh_token.
\* A server that rotates invalidates the token it was given.
Responses(s) ==
    { [refresh_token |-> r, access_token |-> s.minted + 1, expire_in |-> e] :
        r \in {s.refresh} \cup (IF s.refresh < MaxRotations THEN {s.refresh + 1} ELSE {}),
        e \in 1..MaxExpireIn }

\* ClientAuth.renew_token after post_request returned resp, with the fault
\* (if any) that interrupts it.  Result: the object, cred, the file, how the
\* call ended and how many times the file was written.
renew_token(a, c, f, resp, fault, t) ==
    LET rot == Rotated(a.refresh_token, resp.refresh_token)
        a1 == IF rot THEN [a EXCEPT !.refresh_token = resp.refresh_token] ELSE a
        c1 == IF rot THEN resp.refresh_token ELSE c
        f1 == IF rot THEN dumps(c, c1) ELSE f
        w1 == IF rot THEN 1 ELSE 0
        R(aa, cc, ff, oo, ww) ==
            [auth |-> aa, cred |-> cc, file |-> ff, outcome |-> oo, writes |-> ww]
    IN  CASE fault = "crash_after_post" -> R(a, c, f, "crashed", 0)
          [] rot /\ fault = "open_fails" -> R(a1, c1, f, "raised", 0)
          [] rot /\ fault = "crash_after_open" -> R(a1, c1, <<>>, "crashed", 0)
          [] rot /\ fault = "crash_after_write" -> R(a1, c1, f1, "crashed", w1)
          [] fault = "no_access_token" -> R(a1, c1, f1, "raised", w1)
          [] OTHER ->
               R([a1 EXCEPT !.access_token = resp.access_token,
                            !.expiration = int(resp.expire_in * Res + t)],
                 c1, f1, "returned", w1)

Pre == [now |-> now, auth |-> auth, cred |-> cred, file |-> CREDENTIALS, proc |-> proc]

Last(op, outcome, calls, writes, ret, resp_rt) ==
    [op |-> op, outcome |-> outcome, calls |-> calls, writes |-> writes,
     ret |-> ret, resp_rt |-> resp_rt, pre |-> Pre]

\* ---------------------------------------------------------------- actions
InitAuth ==
    /\ now \in 1..2
    /\ env \in {<<>>, <<0>>}
    /\ CREDENTIALS = <<0>>
    /\ cred = 0
    /\ auth = ClientAuth(getParameter(env, 0))
    /\ srv = [refresh |-> 0, minted |-> 0]
    /\ proc = "up"
    /\ last = [op |-> "init", outcome |-> "returned", calls |-> 0, writes |-> 0,
               ret |-> None, resp_rt |-> 0,
               pre |-> [now |-> now, auth |-> auth, cred |-> cred,
                        file |-> CREDENTIALS, proc |-> proc]]
    /\ events = <<>> /\ args = [since |-> <<>>, _from |-> <<>>, to |-> <<>>]
    /\ snap = [outcome |-> "pending", refs |-> <<>>, calls_auth |-> 0, calls_events |-> 0]
    /\ homes = <<>> /\ status = FALSE /\ all_events = FALSE
    /\ main = [pc |-> "off", home_id |-> 0, err |-> "", calls |-> <<>>, todo |-> <<>>]

\* the clock advances
Tick ==
    /\ now < MaxTime
    /\ now' = now + 1
    /\ last' = Last("tick", "returned", 0, 0, None, 0)
    /\ UNCHANGED <<auth, cred, CREDENTIALS, env, srv, proc, snapVars, mainVars>>

\* ClientAuth.access_token, token still valid: line 95 false, line 97
ReadValid ==
    /\ proc = "up"
    /\ ~Expired(auth.expiration, now)
    /\ last' = Last("read", "returned", 0, 0, auth.access_token, 0)
    /\ UNCHANGED <<now, auth, cred, CREDENTIALS, env, srv, proc, snapVars, mainVars>>

\* ClientAuth.access_token, line 95 true, the server refuses the refresh
\* token (HTTP 400): urlopen raises inside post_request
ReadRefused ==
    /\ proc = "up"
    /\ Expired(auth.expiration, now)
    /\ auth.refresh_token # srv.refresh
    /\ last' = Last("read", "raised", 1, 0, None, 0)
    /\ UNCHANGED <<now, auth, cred, CREDENTIALS, env, srv, proc, snapVars, mainVars>>

\* ClientAuth.access_token, line 95 true, the server answers: renew_token
ReadRenew ==
    /\ proc = "up"
    /\ Expired(auth.expiration, now)
    /\ auth.refresh_token = srv.refresh
    /\ srv.minted < MaxMint
    /\ \E resp \in Responses(srv), fault \in Faults :
         LET r == renew_token(auth, cred, CREDENTIALS, resp, fault, now) IN
         /\ fault \in {"open_fails", "crash_after_open", "crash_after_write"}
              => Rotated(auth.refresh_token, resp.refresh_token)
         /\ srv' = [refresh |-> resp.refresh_token, minted |-> resp.access_token]
         /\ auth' = r.auth
         /\ cred' = r.cred
         /\ CREDENTIALS' = r.file
         /\ proc' = IF r.outcome = "crashed" THEN "crashed" ELSE "up"
         /\ last' = Last("read", r.outcome, 1, r.writes,
                         IF r.outcome = "returned" THEN r.auth.access_token ELSE None,
                         resp.refresh_token)
    /\ UNCHANGED <<now, env, snapVars, mainVars>>

\* the script ends
Exit ==
    /\ proc = "up"
    /\ proc' = "exited"
    /\ last' = Last("exit", "returned", 0, 0, None, 0)
    /\ UNCHANGED <<now, auth, cred, CREDENTIALS, env, srv, snapVars, mainVars>>

\* the script starts again: lines 28-38 and ClientAuth()
Restart ==
    /\ proc \in {"exited", "crashed"}
    /\ IF CREDENTIALS = <<>>
         THEN /\ proc' = "load_failed"
              /\ last' = Last("restart", "raised", 0, 0, None, 0)
              /\ UNCHANGED <<auth, cred>>
         ELSE /\ proc' = "up"
              /\ cred' = CREDENTIALS[1]
              /\ auth' = ClientAuth(getParameter(env, CREDENTIALS[1]))
              /\ last' = Last("restart", "returned", 0, 0, None, 0)
    /\ UNCHANGED <<now, CREDENTIALS, env, srv, snapVars, mainVars>>

\* ------------------------------------------------- get_snapshots_url
\* Timestamps are whole seconds.  A date string is modelled by its day
\* number <<d>>, a duration string by a count and a unit; None is <<>>.
\* Day is the length of a day on the model's scale of seconds.
Day == 2
MaxEvents == 2

\* sys.maxsize (line 210): above every timestamp of the model
maxsize == 2147483647

\* datetime.fromisoformat(s).timestamp()
fromisoformat_timestamp(d) == d[1] * Day

\* pytimeparse.parse(since), in seconds
parse(s) == s[1].n * (IF s[1].unit = "d" THEN Day ELSE 1)

\* event times from before day 1 to the start of day 2
EventTimes == (Day - 1)..(2 * Day)

\* subevent['snapshot']: the key is missing (<<>>), or the dict holds no url
\* (url <<>>), or it holds one
Snapshots == {<<>>} \cup { <<[url |-> u]>> : u \in {<<>>, <<"u">>} }

SubeventsOf(t) ==
    {<<>>} \cup { <<[time |-> st, snapshot |-> sn]>> : st \in {t, t + Day}, sn \in Snapshots }

Events == UNION { { [time |-> t, subevents |-> ss] : ss \in SubeventsOf(t) } : t \in EventTimes }

RECURSIVE EventLists(_)
EventLists(n) ==
    IF n = 0 THEN {<<>>}
    ELSE LET shorter == EventLists(n - 1)
         IN  shorter \cup { Append(l, e) : l \in { x \in shorter : Len(x) = n - 1 }, e \in Events }

Dates == {<<>>, <<1>>, <<2>>}
Durations == {<<>>, <<[n |-> 1, unit |-> "s"]>>, <<[n |-> 1, unit |-> "d"]>>}

\* line 226, with since_timestamp in ticks (datetime.now() is a float):
\* event['time'] > since_timestamp or to_timestamp > event['time'] > from_timestamp
InWindow(t, since_ticks, from_ts, to_ts) ==
    t * Res > since_ticks \/ (to_ts > t /\ t > from_ts)

\* lines 227-231 for one event: the references of its subevents, or KeyError
RECURSIVE SubeventRefs(_)
SubeventRefs(ss) ==
    IF ss = <<>> THEN [outcome |-> "returned", refs |-> <<>>]
    ELSE IF Head(ss).snapshot = <<>> THEN [outcome |-> "KeyError", refs |-> <<>>]
    ELSE LET rest == SubeventRefs(Tail(ss))
             url == Head(ss).snapshot[1].url
             mine == IF url # <<>>
                       THEN <<[timestamp |-> Head(ss).time, url |-> url[1]]>>
                       ELSE <<>>
         IN  [outcome |-> rest.outcome, refs |-> mine \o rest.refs]

\* lines 225-233: the loop over the events
RECURSIVE Loop(_, _, _, _)
Loop(evs, since_ticks, from_ts, to_ts) ==
    IF evs = <<>> THEN [outcome |-> "returned", refs |-> <<>>]
    ELSE IF ~InWindow(Head(evs).time, since_ticks, from_ts, to_ts)
           THEN Loop(Tail(evs), since_ticks, from_ts, to_ts)
    ELSE LET mine == SubeventRefs(Head(evs).subevents) IN
         IF mine.outcome # "returned" THEN mine
         ELSE LET rest == Loop(Tail(evs), since_ticks, from_ts, to_ts)
              IN  [outcome |-> rest.outcome, refs |-> mine.refs \o rest.refs]

\* lines 212-216: the arguments after `if since:`
since_timestamp(a, t) == IF a.since # <<>> THEN t - parse(a.since) * Res ELSE maxsize
EffectiveFrom(a) == IF a.since # <<>> THEN <<>> ELSE a._from
EffectiveTo(a) == IF a.since # <<>> THEN <<>> ELSE a.to

\* lines 218-223: the locals from_timestamp and to_timestamp are bound only
\* when their argument is truthy; line 222 reads both
Validate_reversed(a) ==
    LET f == EffectiveFrom(a)
        t == EffectiveTo(a)
    IN  IF f = <<>> \/ t = <<>> THEN "UnboundLocalError"
        ELSE IF fromisoformat_timestamp(f) < fromisoformat_timestamp(t)
               THEN "AssertionError" ELSE "ok"
Validate(a) ==
    LET f == EffectiveFrom(a)
        t == EffectiveTo(a)
    IN  IF f = <<>> \/ t = <<>> THEN "UnboundLocalError"
        ELSE IF fromisoformat_timestamp(t) < fromisoformat_timestamp(f)
               THEN "AssertionError" ELSE "ok"

\* the property access_token read inside another call, the server accepting
\* the refresh token: lines 92-97
access_token(a, c, f, resp, t) ==
    IF Expired(a.expiration, t)
      THEN renew_token(a, c, f, resp, "none", t) @@ [calls |-> 1]
      ELSE [auth |-> a, cred |-> c, file |-> f, outcome |-> "returned",
            writes |-> 0, calls |-> 0]

Frozen(op) == [op |-> op, outcome |-> "returned", calls |-> 0, writes |-> 0,
               ret |-> None, resp_rt |-> 0,
               pre |-> [now |-> now, auth |-> auth, cred |-> cred,
                        file |-> CREDENTIALS, proc |-> proc]]

NoSnap == [outcome |-> "pending", refs |-> <<>>, calls_auth |-> 0, calls_events |-> 0]
NoMain == [pc |-> "off", home_id |-> 0, err |-> "", calls |-> <<>>, todo |-> <<>>]

MainIdle == homes = <<>> /\ status = FALSE /\ all_events = FALSE /\ main = NoMain

InitSnap ==
    /\ now = MaxTime
    /\ env = <<>>
    /\ CREDENTIALS = <<0>>
    /\ cred = 0
    /\ auth = ClientAuth(0)
    /\ srv = [refresh |-> 0, minted |-> 0]
    /\ proc = "up"
    /\ last = Frozen("init")
    /\ events \in EventLists(MaxEvents)
    /\ args \in [since : Durations, _from : Dates, to : Dates]
    /\ snap = NoSnap
    /\ MainIdle

\* lines 209-233 on the events the server returns: how the call ends, what
\* it returns, and whether it got as far as get_events_from_type (line 225)
snapshots_url(a, evs, t) ==
    LET v == Validate(a) IN
    IF v # "ok" THEN [outcome |-> v, refs |-> <<>>, fetched |-> FALSE]
    ELSE LET r == Loop(evs, since_timestamp(a, t),
                       fromisoformat_timestamp(EffectiveFrom(a)),
                       fromisoformat_timestamp(EffectiveTo(a)))
         IN  [outcome |-> r.outcome,
              refs |-> IF r.outcome = "returned" THEN r.refs ELSE <<>>,
              fetched |-> TRUE]

\* auth_data.access_token evaluated while building post_params
ReadToken(resp) ==
    LET tok == access_token(auth, cred, CREDENTIALS, resp, now) IN
    /\ auth' = tok.auth
    /\ cred' = tok.cred
    /\ CREDENTIALS' = tok.file
    /\ srv' = IF tok.calls = 1
                THEN [refresh |-> resp.refresh_token, minted |-> resp.access_token]
                ELSE srv

Renewals(resp) == access_token(auth, cred, CREDENTIALS, resp, now).calls

\* ModulesEvents.get_snapshots_url(module_type, since, _from, to), with
\* get_events_from_type (lines 194-203) inside it
get_snapshots_url ==
    /\ snap.outcome = "pending"
    /\ LET r == snapshots_url(args, events, now) IN
       IF ~r.fetched
         THEN /\ snap' = [outcome |-> r.outcome, refs |-> r.refs,
                          calls_auth |-> 0, calls_events |-> 0]
              /\ UNCHANGED <<auth, cred, CREDENTIALS, srv>>
         ELSE \E resp \in Responses(srv) :
              /\ ReadToken(resp)
              /\ snap' = [outcome |-> r.outcome, refs |-> r.refs,
                          calls_auth |-> Renewals(resp), calls_events |-> 1]
    /\ UNCHANGED <<now, env, proc, last, events, args, mainVars>>

NextSnap == get_snapshots_url

\* ------------------------------------------------------------- __main__
Homes == { [id |-> i, name |-> n] : i \in {1, 2}, n \in {"Kergal", "Other"} }
HomeLists == {<<>>} \cup { <<h>> : h \in Homes } \cup { <<h, g>> : h \in Homes, g \in Homes }

\* HomesData.get_homes_id(name), name given: <<id>>, or <<>> for the
\* IndexError of [...][0] on an empty list
get_homes_id_first(raw, name) ==
    LET found == SelectSeq(raw, LAMBDA h : h.name = name)
    IN  IF found = <<>> THEN <<raw[1].id>> ELSE <<found[1].id>>
get_homes_id(raw, name) ==
    LET found == SelectSeq(raw, LAMBDA h : h.name = name)
    IN  IF found = <<>> THEN <<>> ELSE <<found[1].id>>

\* line 249: get_snapshots_url(_from='2023-12-15', to='2024-01-05')
MainArgs == [since |-> <<>>, _from |-> <<1>>, to |-> <<2>>]

InitMain ==
    /\ now = 1
    /\ env = <<>>
    /\ CREDENTIALS = <<0>>
    /\ cred = 0
    /\ auth = ClientAuth(0)
    /\ srv = [refresh |-> 0, minted |-> 0]
    /\ proc = "up"
    /\ last = Frozen("init")
    /\ events \in EventLists(1)
    /\ args = MainArgs
    /\ snap = NoSnap
    /\ homes \in HomeLists
    /\ status \in BOOLEAN
    /\ all_events \in BOOLEAN
    /\ main = [pc |-> "start", home_id |-> 0, err |-> "", calls |-> <<>>, todo |-> <<>>]

Called(resp, endpoint) ==
    main.calls \o (IF Renewals(resp) = 1 THEN <<"oauth2/token">> ELSE <<>>) \o <<endpoint>>

Fail(e, calls) == [main EXCEPT !.pc = "failed", !.err = e, !.calls = calls]

\* line 239, first half: HomesData(auth)
HomesData ==
    /\ main.pc = "start"
    /\ \E resp \in Responses(srv) :
         /\ ReadToken(resp)
         /\ main' = IF homes = <<>>
                      THEN Fail("Exception", Called(resp, "api/homesdata"))
                      ELSE [main EXCEPT !.pc = "homesdata",
                                        !.calls = Called(resp, "api/homesdata")]
    /\ UNCHANGED <<now, env, proc, last, snapVars, homes, status, all_events>>

\* line 239, second half: .get_homes_id(name='Kergal')
GetHomesId ==
    /\ main.pc = "homesdata"
    /\ LET r == get_homes_id(homes, "Kergal") IN
       main' = IF r = <<>> THEN Fail("IndexError", main.calls)
               ELSE [main EXCEPT !.pc = "home_id", !.home_id = r[1]]
    /\ UNCHANGED <<authVars, snapVars, homes, status, all_events>>

\* line 240: HomeStatus(auth, home_id)
HomeStatus ==
    /\ main.pc = "home_id"
    /\ \E resp \in Responses(srv) :
         /\ ReadToken(resp)
         /\ main' = IF ~status
                      THEN Fail("Exception", Called(resp, "api/homestatus"))
                      ELSE [main EXCEPT !.pc = "status",
                                        !.calls = Called(resp, "api/homestatus")]
    /\ UNCHANGED <<now, env, proc, last, snapVars, homes, status, all_events>>

\* line 241: ModulesEvents(auth, home_id, size=300)
ModulesEvents ==
    /\ main.pc = "status"
    /\ \E resp \in Responses(srv) :
         /\ ReadToken(resp)
         /\ main' = IF ~all_events
                      THEN Fail("Exception", Called(resp, "api/getevents"))
                      ELSE [main EXCEPT !.pc = "events",
                                        !.calls = Called(resp, "api/getevents")]
    /\ UNCHANGED <<now, env, proc, last, snapVars, homes, status, all_events>>

\* line 249: events.get_snapshots_url(...)
MainSnapshots ==
    /\ main.pc = "events"
    /\ LET r == snapshots_url(args, events, now) IN
       IF ~r.fetched
         THEN /\ main' = Fail(r.outcome, main.calls)
              /\ UNCHANGED <<auth, cred, CREDENTIALS, srv>>
         ELSE \E resp \in Responses(srv) :
              /\ ReadToken(resp)
              /\ main' = IF r.outcome # "returned"
                           THEN Fail(r.outcome, Called(resp, "api/getevents"))
                           ELSE [main EXCEPT !.pc = "urls", !.todo = r.refs,
                                             !.calls = Called(resp, "api/getevents")]
    /\ UNCHANGED <<now, env, proc, last, snapVars, homes, status, all_events>>

\* lines 250-259: one turn of the loop over the snapshots, or its end
Download ==
    /\ main.pc = "urls"
    /\ main' = IF main.todo = <<>> THEN [main EXCEPT !.pc = "done"]
               ELSE [main EXCEPT !.todo = Tail(main.todo),
                                 !.calls = Append(main.calls, "snapshot")]
    /\ UNCHANGED <<authVars, snapVars, homes, status, all_events>>

NextMain == HomesData \/ GetHomesId \/ HomeStatus \/ ModulesEvents \/ MainSnapshots \/ Download

NextAuth == Tick \/ ReadValid \/ ReadRefused \/ ReadRenew \/ Exit \/ Restart

SpecAuth == InitAuth /\ [][NextAuth]_vars
SpecSnap == InitSnap /\ [][NextSnap]_vars
SpecMain == InitMain /\ [][NextMain]_vars

\* ============================================================ properties
IsRead == last.op = "read"

\* C1: a read of access_token whose stored token is not expired (expiration
\* strictly after the current time) makes no network call, returns, and leaves
\* the token, the expiration, the refresh token and the credential file as
\* they were.
C1_ValidReadTouchesNothing ==
    (IsRead /\ last.pre.auth.expiration * Res > last.pre.now) =>
        /\ last.outcome = "returned"
        /\ last.calls = 0
        /\ last.writes = 0
        /\ auth = last.pre.auth
        /\ cred = last.pre.cred
        /\ CREDENTIALS = last.pre.file

C1_Witness ==
    /\ IsRead
    /\ last.pre.auth.expiration * Res > last.pre.now
    /\ last.pre.auth.access_token # None
    /\ last.ret = last.pre.auth.access_token

\* C2: a read of access_token whose token is absent or whose expiry is at or
\* before the current time (equality included) makes exactly one renewal
\* exchange before it returns, and returns the token that exchange delivered.
C2_ExpiredReadRenewsOnce ==
    (IsRead /\ last.outcome = "returned"
            /\ last.pre.auth.expiration * Res <= last.pre.now) =>
        /\ last.calls = 1
        /\ last.ret = srv.minted

\* C3: every token access_token returns is not expired when it is returned:
\* its expiration is strictly later than the current time.
C3_ReturnedTokenNotExpired ==
    (IsRead /\ last.outcome = "returned") => auth.expiration * Res > now

\* C4: a renewal that returns with a refresh token different from the one held
\* leaves that new value in the credential file and in memory; one that
\* returns with the same refresh token does not write the file.
C4_RotationPersisted ==
    (IsRead /\ last.calls = 1 /\ last.outcome = "returned") =>
        IF last.resp_rt # last.pre.auth.refresh_token
          THEN /\ CREDENTIALS = <<last.resp_rt>>
               /\ auth.refresh_token = last.resp_rt
               /\ last.writes = 1
          ELSE /\ last.writes = 0
               /\ CREDENTIALS = last.pre.file

C4_Witness ==
    /\ IsRead /\ last.calls = 1 /\ last.outcome = "returned"
    /\ last.resp_rt # last.pre.auth.refresh_token
    /\ CREDENTIALS # last.pre.file

\* C5: whenever the process starts again, after a crash or a failure at any
\* step of renew_token, the credential file holds a complete credential set
\* whose REFRESH_TOKEN is the one the server accepts.
C5_RestartFindsAcceptedToken ==
    (last.op = "restart") => CREDENTIALS = <<srv.refresh>>

\* --- get_snapshots_url
Explicit == args.since = <<>> /\ args._from # <<>> /\ args.to # <<>>
Finished == snap.outcome # "pending"
Refs == { snap.refs[i] : i \in 1..Len(snap.refs) }

\* the references the specification asks for: the url-carrying subevents of
\* the events inside the closed window
Carried(in(_)) ==
    UNION { { [timestamp |-> events[i].subevents[j].time,
               url |-> events[i].subevents[j].snapshot[1].url[1]] :
                j \in { k \in 1..Len(events[i].subevents) :
                          /\ events[i].subevents[k].snapshot # <<>>
                          /\ events[i].subevents[k].snapshot[1].url # <<>> } } :
            i \in { k \in 1..Len(events) : in(events[k].time) } }

InExplicit(t) == args._from[1] * Day <= t /\ t <= args.to[1] * Day
InSince(t) == t * Res >= now - parse(args.since) * Res

\* C6: in explicit form with from <= to, every reference returned has its
\* timestamp (the subevent's time) inside [from, to].
C6_RefsInsideWindow ==
    (Explicit /\ args._from[1] <= args.to[1] /\ snap.outcome = "returned") =>
        \A r \in Refs : InExplicit(r.timestamp)

\* C7: in explicit form with to earlier than from the call fails with the
\* configuration error and contacts neither the events endpoint nor the
\* token endpoint.
C7_BadWindowNoNetwork ==
    (Explicit /\ args.to[1] < args._from[1] /\ Finished) =>
        /\ snap.outcome = "AssertionError"
        /\ snap.calls_events = 0
        /\ snap.calls_auth = 0
        /\ auth = ClientAuth(0)
        /\ srv.minted = 0

C7_Witness ==
    /\ Explicit /\ args.to[1] < args._from[1] /\ Finished
    /\ events # <<>>
    /\ Expired(auth.expiration, now)

\* C8: with a relative duration supplied, alone or next to from/to, the call
\* completes and returns the references of exactly the events inside
\* [now - N, +infinity).
C8_SinceReturnsWindow ==
    (args.since # <<>> /\ Finished) =>
        /\ snap.outcome = "returned"
        /\ Refs = Carried(InSince)

\* C9: for every valid window the call completes without error and returns
\* exactly the references of the url-carrying subevents of the in-window
\* events, whatever the order of the events.
C9_ExactlyCarriedRefs ==
    /\ (args.since # <<>> /\ Finished) =>
           snap.outcome = "returned" /\ Refs = Carried(InSince)
    /\ (Explicit /\ args._from[1] <= args.to[1] /\ Finished) =>
           snap.outcome = "returned" /\ Refs = Carried(InExplicit)

\* --- __main__
NoMatch == \A i \in 1..Len(homes) : homes[i].name # "Kergal"
CallsTo(endpoint) == { i \in 1..Len(main.calls) : main.calls[i] = endpoint }

\* C10: when no home of the listing has the name looked up, the lookup raises
\* and the run ends there: no request to the home-status or events endpoint
\* follows, and the listing is not asked for again.
C10_NoHomeStopsRun ==
    (NoMatch /\ main.pc \notin {"off", "start", "homesdata"}) =>
        /\ main.pc = "failed"
        /\ homes # <<>> => main.err = "IndexError"
        /\ CallsTo("api/homestatus") = {}
        /\ CallsTo("api/getevents") = {}
        /\ Cardinality(CallsTo("api/homesdata")) = 1

C10_Witness ==
    /\ homes # <<>> /\ NoMatch
    /\ main.pc = "failed" /\ main.err = "IndexError"
    /\ main.calls = <<"oauth2/token", "api/homesdata">>
====
